---- MODULE Spec2Model ----
(***************************************************************************)
(* Model of src/transcriber.py: AudioTranscriber.process_transcription and *)
(* the two per-segment functions it dispatches to.                         *)
(*                                                                         *)
(* Strings are sequences of one-character strings.  Times given in seconds *)
(* (floats in the program) are counted in ticks, TicksPerMicro ticks to a  *)
(* microsecond; durations (datetime.timedelta) are counted in whole        *)
(* microseconds, the resolution of timedelta.                              *)
(***************************************************************************)
EXTENDS Integers, Sequences, FiniteSets, TLC

\* ---------------------------------------------------------------- bounds
MaxSegs == 2
MaxWords == 3
MaxMinChars == 4
TicksPerMicro == 2

\* ------------------------------------------------------- values and text
\* Python's None, and a value that is set.
None == <<>>
Some(v) == <<v>>

\* The characters str.strip() removes that the inputs below can contain.
Whitespace == {" ", "\t", "\n"}

RECURSIVE lstrip(_)
lstrip(s) == IF s # <<>> /\ Head(s) \in Whitespace THEN lstrip(Tail(s)) ELSE s

RECURSIVE rstrip(_)
rstrip(s) ==
  IF s # <<>> /\ s[Len(s)] \in Whitespace
  THEN rstrip(SubSeq(s, 1, Len(s) - 1))
  ELSE s

\* str.strip()
strip(s) == rstrip(lstrip(s))

\* timedelta(seconds=x): x rounded to whole microseconds, ties to even.
timedelta(seconds) ==
  LET q == seconds \div TicksPerMicro
      r == seconds % TicksPerMicro
  IN  IF 2 * r < TicksPerMicro THEN q
      ELSE IF 2 * r > TicksPerMicro THEN q + 1
      ELSE IF q % 2 = 0 THEN q ELSE q + 1

\* srt.Subtitle(index=, start=, end=, content=)
Subtitle(i, s, e, c) == [index |-> i, start |-> s, end |-> e, content |-> c]

\* ------------------------------------------------------------ the inputs
\* Text-rich words: blank, leading, trailing and inner whitespace; times that
\* fall between two microseconds.
TextWords ==
  { [text |-> t, start |-> 1, end |-> 3] :
      t \in { <<" ">>, <<" ", "a">>, <<"b", " ", "c", " ">> } }

TextFlats ==
  { [start |-> 1, end |-> 3, text |-> t] : t \in { <<" ">>, <<" ", "e", " ", "f">> } }

\* Time-rich words: start times in any order, end >= start.
TimeWords ==
  { [text |-> <<"a">>, start |-> 0, end |-> 1],
    [text |-> <<"a">>, start |-> 2, end |-> 5],
    [text |-> <<>>, start |-> 3, end |-> 4] }

TimeFlats ==
  { [start |-> 3, end |-> 5, text |-> <<"g">>],
    [start |-> 4, end |-> 1, text |-> <<"g">>] }

\* Word lists of exactly k words.
WordLists(WP, k) == [1..k -> WP]

\* Transcription results of at most s segments holding at most n words in all.
RECURSIVE Results(_, _, _, _)
Results(WP, FP, s, n) ==
  IF s = 0 THEN { <<>> }
  ELSE { <<>> }
       \cup { <<f>> \o rest : f \in FP, rest \in Results(WP, FP, s - 1, n) }
       \cup UNION { { <<[words |-> ws]>> \o rest :
                        ws \in WordLists(WP, k),
                        rest \in Results(WP, FP, s - 1, n - k) } : k \in 0..n }

Inputs ==
  Results(TextWords, TextFlats, MaxSegs, MaxWords)
    \cup Results(TimeWords, TimeFlats, MaxSegs, MaxWords)

\* ----------------------------------------------------------------- state
VARIABLES
  segments,            \* result.get("segments", [])
  min_chars,           \* self.min_chars
  pc,                  \* "loop", "words", "return", "done"
  seg_i,               \* segments consumed by the loop of process_transcription
  subtitles,           \* process_transcription: subtitles
  index,               \* process_transcription: index
  start_index,         \* _process_segment_with_words: start_index
  word_i,              \* words consumed by the loop of _process_segment_with_words
  segment_subtitles,   \* _process_segment_with_words: subtitles
  accumulated_text,    \* _process_segment_with_words: accumulated_text
  start_time,          \* _process_segment_with_words: start_time
  end_time,            \* _process_segment_with_words: end_time
  local_index          \* _process_segment_with_words: index

outer == <<segments, min_chars, seg_i, subtitles, index>>
locals == <<start_index, word_i, segment_subtitles, accumulated_text,
            start_time, end_time, local_index>>
vars == <<segments, min_chars, pc, seg_i, subtitles, index, start_index, word_i,
          segment_subtitles, accumulated_text, start_time, end_time, local_index>>

Init ==
  /\ segments \in Inputs
  /\ min_chars \in 1..MaxMinChars
  /\ pc = "loop"
  /\ seg_i = 0
  /\ subtitles = <<>>
  /\ index = 1
  /\ start_index = 0
  /\ word_i = 0
  /\ segment_subtitles = <<>>
  /\ accumulated_text = <<>>
  /\ start_time = None
  /\ end_time = None
  /\ local_index = 0

\* ------------------------------------------------- pieces of the handlers
\* `"words" in segment`
HasWords(segment) == "words" \in DOMAIN segment

\* mutant: no word is skipped
IsSkipped_never(text) == FALSE

\* `if not text: continue`
IsSkipped(text) == text = <<>>

\* mutant: the start time follows every word
BlockStart_always(acc, st, word_info) == Some(word_info["start"])

\* mutant: the block starts at its first word's end
BlockStart_end(acc, st, word_info) ==
  IF acc = <<>> THEN Some(word_info["end"]) ELSE st

\* `if not accumulated_text: start_time = word_info["start"]`
BlockStart(acc, st, word_info) ==
  IF acc = <<>> THEN Some(word_info["start"]) ELSE st

\* mutant: words are joined without a separator
Accumulate_nospace(acc, text) == acc \o text

\* `f"{accumulated_text} {text}" if accumulated_text else text`
Accumulate(acc, text) == IF acc # <<>> THEN acc \o <<" ">> \o text ELSE text

\* mutant: the threshold must be exceeded
MeetsMinimum_strict(acc, min) == Len(acc) > min

\* mutant: every word is flushed
MeetsMinimum_always(acc, min) == TRUE

\* `len(accumulated_text) >= self.min_chars`
MeetsMinimum(acc, min) == Len(acc) >= min

\* mutant: a trailing block is always emitted
HasRemainder_always(acc) == TRUE

\* mutant: a trailing block is never emitted
HasRemainder_never(acc) == FALSE

\* `if accumulated_text:` after the loop
HasRemainder(acc) == acc # <<>>

\* mutant: the flat text is not trimmed
process_segment_without_words_raw(segment, i) ==
  Subtitle(i, timedelta(segment["start"]), timedelta(segment["end"]), segment["text"])

\* _process_segment_without_words
process_segment_without_words(segment, i) ==
  Subtitle(i, timedelta(segment["start"]), timedelta(segment["end"]),
           strip(segment["text"]))

\* mutant: the counter is not advanced after a flat segment
AfterFlat_same(i) == i

\* `index += 1` after a flat segment
AfterFlat(i) == i + 1

\* ---------------------------------------------------------------- actions
\* process_transcription: next segment has words; call and initialise locals.
CallWithWords ==
  /\ pc = "loop"
  /\ seg_i < Len(segments)
  /\ HasWords(segments[seg_i + 1])
  /\ seg_i' = seg_i + 1
  /\ start_index' = index
  /\ segment_subtitles' = <<>>
  /\ accumulated_text' = <<>>
  /\ start_time' = None
  /\ end_time' = None
  /\ local_index' = index
  /\ word_i' = 0
  /\ pc' = "words"
  /\ UNCHANGED <<segments, min_chars, subtitles, index>>

\* process_transcription: next segment has no words.
WithoutWords ==
  /\ pc = "loop"
  /\ seg_i < Len(segments)
  /\ ~HasWords(segments[seg_i + 1])
  /\ subtitles' =
       Append(subtitles, process_segment_without_words(segments[seg_i + 1], index))
  /\ index' = AfterFlat(index)
  /\ seg_i' = seg_i + 1
  /\ UNCHANGED <<segments, min_chars, pc>>
  /\ UNCHANGED locals

\* One iteration of `for word_info in segment["words"]`.
WordStep ==
  /\ pc = "words"
  /\ word_i < Len(segments[seg_i]["words"])
  /\ LET word_info == segments[seg_i]["words"][word_i + 1]
         text == strip(word_info["text"])
         st == BlockStart(accumulated_text, start_time, word_info)
         acc == Accumulate(accumulated_text, text)
         et == Some(word_info["end"])
     IN  /\ word_i' = word_i + 1
         /\ IF IsSkipped(text)
            THEN UNCHANGED <<accumulated_text, start_time, end_time,
                             segment_subtitles, local_index>>
            ELSE IF MeetsMinimum(acc, min_chars)
            THEN /\ segment_subtitles' =
                      Append(segment_subtitles,
                             Subtitle(local_index, timedelta(st[1]),
                                      timedelta(et[1]), acc))
                 /\ local_index' = local_index + 1
                 /\ accumulated_text' = <<>>
                 /\ start_time' = None
                 /\ end_time' = None
            ELSE /\ accumulated_text' = acc
                 /\ start_time' = st
                 /\ end_time' = et
                 /\ UNCHANGED <<segment_subtitles, local_index>>
  /\ UNCHANGED <<pc, start_index>>
  /\ UNCHANGED outer

\* After the loop: the trailing block, if text remains.
Trailing ==
  /\ pc = "words"
  /\ word_i = Len(segments[seg_i]["words"])
  /\ IF HasRemainder(accumulated_text)
     THEN LET start_td == IF start_time # None THEN timedelta(start_time[1]) ELSE 0
              end_td == IF end_time # None THEN timedelta(end_time[1]) ELSE 0
          IN  /\ segment_subtitles' =
                   Append(segment_subtitles,
                          Subtitle(local_index, start_td, end_td, accumulated_text))
              /\ local_index' = local_index + 1
     ELSE UNCHANGED <<segment_subtitles, local_index>>
  /\ pc' = "return"
  /\ UNCHANGED <<start_index, word_i, accumulated_text, start_time, end_time>>
  /\ UNCHANGED outer

\* `return subtitles, index`, then `subtitles.extend(segment_subtitles)`.
Return ==
  /\ pc = "return"
  /\ subtitles' = subtitles \o segment_subtitles
  /\ index' = local_index
  /\ pc' = "loop"
  /\ UNCHANGED <<segments, min_chars, seg_i>>
  /\ UNCHANGED locals

\* `return subtitles` of process_transcription.
Finish ==
  /\ pc = "loop"
  /\ seg_i = Len(segments)
  /\ pc' = "done"
  /\ UNCHANGED outer
  /\ UNCHANGED locals

Next == CallWithWords \/ WithoutWords \/ WordStep \/ Trailing \/ Return \/ Finish

Spec == Init /\ [][Next]_vars

\* ------------------------------------------------- vocabulary of the claims
\* A text with no character other than whitespace.
Blank(t) == \A i \in 1..Len(t) : t[i] \in Whitespace

\* A text without its leading and trailing whitespace.
Trimmed(t) ==
  IF Blank(t) THEN <<>>
  ELSE LET i == CHOOSE a \in 1..Len(t) :
                  t[a] \notin Whitespace /\ \A k \in 1..(a - 1) : t[k] \in Whitespace
           j == CHOOSE b \in 1..Len(t) :
                  t[b] \notin Whitespace /\ \A k \in (b + 1)..Len(t) : t[k] \in Whitespace
       IN  SubSeq(t, i, j)

\* Texts joined by single spaces.
RECURSIVE JoinSp(_)
JoinSp(ts) ==
  IF ts = <<>> THEN <<>>
  ELSE IF Len(ts) = 1 THEN ts[1]
  ELSE ts[1] \o <<" ">> \o JoinSp(Tail(ts))

\* The maximal whitespace-free runs of a text, in order.
RECURSIVE Tokens(_)
Tokens(s) ==
  IF s = <<>> THEN <<>>
  ELSE IF Head(s) \in Whitespace THEN Tokens(Tail(s))
  ELSE LET n == CHOOSE k \in 1..Len(s) :
                  /\ \A i \in 1..k : s[i] \notin Whitespace
                  /\ k = Len(s) \/ s[k + 1] \in Whitespace
       IN  <<SubSeq(s, 1, n)>> \o Tokens(SubSeq(s, n + 1, Len(s)))

\* The words of a list whose text is not blank, in order.
NonBlank(ws) == SelectSeq(ws, LAMBDA w : ~Blank(w["text"]))

TrimmedTexts(ws) == [k \in 1..Len(ws) |-> Trimmed(ws[k]["text"])]

\* What a transcription result says, piece by piece.
RECURSIVE SourceTexts(_)
SourceTexts(segs) ==
  IF segs = <<>> THEN <<>>
  ELSE (IF "words" \in DOMAIN Head(segs)
        THEN TrimmedTexts(NonBlank(Head(segs)["words"]))
        ELSE <<Head(segs)["text"]>>)
       \o SourceTexts(Tail(segs))

Contents(subs) == [k \in 1..Len(subs) |-> subs[k]["content"]]

\* A word-level segment is being processed, or has just been.
InSegment == pc \in {"words", "return"}

\* The flat segment just passed through.
AfterFlatSegment ==
  /\ pc \in {"loop", "done"}
  /\ seg_i >= 1
  /\ "words" \notin DOMAIN segments[seg_i]

CurWords == segments[seg_i]["words"]

\* The non-blank words consumed so far in the current segment.
Seen == NonBlank(SubSeq(CurWords, 1, word_i))

SeenJoin(lo, hi) == JoinSp(TrimmedTexts(SubSeq(Seen, lo, hi)))

\* The ways to read the emitted blocks j, j+1, ... as consecutive runs of the
\* non-blank words from position `from` on: the last word of each block.
RECURSIVE Splits(_, _)
Splits(j, from) ==
  IF j > Len(segment_subtitles) THEN { <<>> }
  ELSE UNION { { <<hi>> \o r : r \in Splits(j + 1, hi + 1) } :
                 hi \in { h \in from..Len(Seen) :
                            segment_subtitles[j]["content"] = SeenJoin(from, h) } }

First(split, j) == IF j = 1 THEN 1 ELSE split[j - 1] + 1

\* ------------------------------------------------------------------ claims
\* C1: the indices of the output blocks are 1, 2, ..., N in output order, with
\* no gap, repeat or reset at segment boundaries; the blocks a word-level
\* segment has emitted so far continue the numbering of the output before it.
IndexContinuity ==
  /\ \A k \in 1..Len(subtitles) : subtitles[k]["index"] = k
  /\ InSegment =>
       \A k \in 1..Len(segment_subtitles) :
         segment_subtitles[k]["index"] = Len(subtitles) + k

IndexContinuityWitness ==
  /\ pc = "done"
  /\ Len(segments) = 2
  /\ "words" \notin DOMAIN segments[1]
  /\ "words" \in DOMAIN segments[2]
  /\ Len(subtitles) >= 3

\* C2: the contents of the returned blocks, joined in order by single spaces,
\* give the same sequence of whitespace-separated words as the non-blank word
\* texts (word-level segments) and the segment texts (flat segments) joined in
\* their original order.
ContentNonLoss ==
  pc = "done" =>
    Tokens(JoinSp(Contents(subtitles))) = Tokens(JoinSp(SourceTexts(segments)))

ContentNonLossWitness ==
  /\ pc = "done"
  /\ Len(segments) = 2
  /\ "words" \in DOMAIN segments[1]
  /\ "words" \notin DOMAIN segments[2]
  /\ \E i \in 1..Len(segments[1]["words"]) : Blank(segments[1]["words"][i]["text"])
  /\ Len(subtitles) >= 3
  /\ Len(Tokens(JoinSp(Contents(subtitles)))) >= 5

\* C3 (as amended): every block emitted from a word-level segment, except
\* possibly the last block of that segment, has content of at least min_chars
\* characters.
ThresholdWordLevel ==
  InSegment =>
    \A k \in 1..Len(segment_subtitles) :
      \/ pc = "return" /\ k = Len(segment_subtitles)
      \/ Len(segment_subtitles[k]["content"]) >= min_chars

ThresholdWordLevelWitness ==
  /\ pc = "return"
  /\ Len(segment_subtitles) >= 2
  /\ Len(segment_subtitles[Len(segment_subtitles)]["content"]) < min_chars

\* C3 (as stated): every emitted block, except possibly the last block of each
\* word-level segment, has content of at least min_chars characters; the block
\* of a flat segment is no exception.
ThresholdAllBlocks ==
  /\ ThresholdWordLevel
  /\ AfterFlatSegment => Len(subtitles[Len(subtitles)]["content"]) >= min_chars

\* C4 (as amended): every block emitted from a word-level segment has non-empty
\* content, and the block of a flat segment has empty content exactly when the
\* segment's text is blank.
NonEmptyWordLevelContent ==
  /\ InSegment =>
       \A k \in 1..Len(segment_subtitles) : segment_subtitles[k]["content"] # <<>>
  /\ AfterFlatSegment =>
       (subtitles[Len(subtitles)]["content"] = <<>> <=> Blank(segments[seg_i]["text"]))

NonEmptyWordLevelContentWitness ==
  /\ pc = "return"
  /\ Len(segment_subtitles) >= 1
  /\ Len(Seen) < Len(CurWords)
  /\ seg_i = 2
  /\ "words" \notin DOMAIN segments[1]
  /\ subtitles[1]["content"] = <<>>

\* C4 (as stated): every block of the output has non-empty content.
NonEmptyContent ==
  \A k \in 1..Len(subtitles) : subtitles[k]["content"] # <<>>

\* Each block emitted so far starts at the start time of some word of the segment.
StartsAreWordStarts ==
  \A k \in 1..Len(segment_subtitles) :
    \E i \in 1..Len(CurWords) :
      segment_subtitles[k]["start"] = timedelta(CurWords[i]["start"])

StartsNonDecreasing ==
  \A k \in 1..(Len(segment_subtitles) - 1) :
    segment_subtitles[k]["start"] <= segment_subtitles[k + 1]["start"]

\* C5 (as amended): in a word-level segment each block starts at the start time
\* of some word of the segment, and the starts of consecutive blocks are
\* non-decreasing when the start times of the segment's non-blank words are
\* non-decreasing in word order.
MonotonicTimingOrdered ==
  InSegment =>
    /\ StartsAreWordStarts
    /\ (\A a \in 1..(Len(Seen) - 1) : Seen[a]["start"] <= Seen[a + 1]["start"])
         => StartsNonDecreasing

MonotonicTimingOrderedWitness ==
  /\ pc = "return"
  /\ Len(segment_subtitles) >= 2
  /\ \A a \in 1..(Len(Seen) - 1) : Seen[a]["start"] <= Seen[a + 1]["start"]
  /\ segment_subtitles[1]["start"] < segment_subtitles[2]["start"]

\* C5 (as stated): in a word-level segment whose words satisfy only start >= 0
\* and end >= start, the starts of consecutive blocks are non-decreasing and
\* each is the start time of some word of the segment.
MonotonicTiming ==
  InSegment => StartsAreWordStarts /\ StartsNonDecreasing

\* C6: consuming a word whose trimmed text is empty leaves the accumulator, the
\* block start and end times, the index counters and the emitted blocks as
\* they were.
EmptyWordSkipping ==
  [][ (/\ pc = "words"
       /\ word_i < Len(CurWords)
       /\ Blank(CurWords[word_i + 1]["text"]))
      => UNCHANGED <<accumulated_text, start_time, end_time, local_index, index,
                     segment_subtitles, subtitles>> ]_vars

EmptyWordSkippingWitness ==
  /\ pc = "words"
  /\ word_i >= 2
  /\ Blank(CurWords[word_i]["text"])
  /\ accumulated_text # <<>>
  /\ start_time # Some(CurWords[word_i]["start"])
  /\ end_time # Some(CurWords[word_i]["end"])

\* C7: passing a flat segment appends exactly one block to the output, with the
\* current index, start and end the segment's start and end as durations, and
\* content the segment's text without leading and trailing whitespace, whatever
\* min_chars and the length of the text; and it advances the index by one.
FlatPassThrough ==
  [][ (/\ pc = "loop"
       /\ seg_i < Len(segments)
       /\ "words" \notin DOMAIN segments[seg_i + 1])
      => /\ subtitles' =
              Append(subtitles,
                     [index |-> index,
                      start |-> timedelta(segments[seg_i + 1]["start"]),
                      end |-> timedelta(segments[seg_i + 1]["end"]),
                      content |-> Trimmed(segments[seg_i + 1]["text"])])
         /\ index' = index + 1 ]_vars

FlatPassThroughWitness ==
  /\ AfterFlatSegment
  /\ seg_i = 2
  /\ Len(subtitles) >= 3
  /\ subtitles[Len(subtitles)]["content"] # segments[seg_i]["text"]
  /\ subtitles[Len(subtitles)]["content"] # <<>>
  /\ Len(subtitles[Len(subtitles)]["content"]) < min_chars

\* The current segment has been processed and control is back in the caller.
Returned ==
  /\ pc \in {"loop", "done"}
  /\ seg_i >= 1
  /\ "words" \in DOMAIN segments[seg_i]

\* C8: a word-level segment with no non-blank word emits no block and returns
\* the index it was given, which the caller keeps; a word-level segment with a
\* non-blank word emits at least one block.
EmptySegmentEmitsNothing ==
  /\ pc = "return" =>
       IF Seen = <<>>
       THEN segment_subtitles = <<>> /\ local_index = start_index /\ index = start_index
       ELSE Len(segment_subtitles) >= 1
  /\ (Returned /\ Seen = <<>>) => index = start_index /\ index = Len(subtitles) + 1

EmptySegmentEmitsNothingWitness ==
  /\ pc = "done"
  /\ Len(segments) = 2
  /\ "words" \in DOMAIN segments[1]
  /\ Len(segments[1]["words"]) >= 1
  /\ NonBlank(segments[1]["words"]) = <<>>
  /\ Len(subtitles) >= 1
  /\ subtitles[1]["index"] = 1

\* C9: while a word-level segment is processed the accumulator is non-empty
\* exactly when the block start and end times are set, and every block emitted
\* starts at the start of its first non-blank word and ends at the end of its
\* last one, so the trailing block never takes the zero-duration fallback.
BlockTiming ==
  InSegment =>
    /\ accumulated_text # <<>> => start_time # None /\ end_time # None
    /\ accumulated_text = <<>> => start_time = None /\ end_time = None
    /\ \E split \in Splits(1, 1) :
         \A j \in 1..Len(segment_subtitles) :
           /\ segment_subtitles[j]["start"] = timedelta(Seen[First(split, j)]["start"])
           /\ segment_subtitles[j]["end"] = timedelta(Seen[split[j]]["end"])

BlockTimingWitness ==
  /\ pc = "return"
  /\ Len(CurWords) = 3
  /\ Blank(CurWords[2]["text"])
  /\ Len(Seen) = 2
  /\ Len(segment_subtitles) = 1
  /\ accumulated_text # <<>>
  /\ segment_subtitles[1]["start"] > segment_subtitles[1]["end"]

\* C10: the blocks emitted from a word-level segment are consecutive runs of
\* its non-blank words, trimmed and joined by single spaces, with the words
\* not yet emitted held in the accumulator (none once the segment is done); a
\* block of two or more words is shorter than min_chars without its last word;
\* and the accumulator is empty when a segment's first word is reached.
GreedyMinimalFlush ==
  InSegment =>
    /\ word_i = 0 => accumulated_text = <<>>
    /\ \E split \in Splits(1, 1) :
         LET n == Len(segment_subtitles)
             rest == IF n = 0 THEN 1 ELSE split[n] + 1
         IN  /\ \A j \in 1..n :
                  split[j] > First(split, j)
                    => Len(SeenJoin(First(split, j), split[j] - 1)) < min_chars
             /\ IF pc = "words"
                THEN accumulated_text = SeenJoin(rest, Len(Seen))
                ELSE rest = Len(Seen) + 1

GreedyMinimalFlushWitness ==
  /\ pc = "return"
  /\ seg_i = 2
  /\ "words" \in DOMAIN segments[1]
  /\ Len(segment_subtitles) = 2
  /\ Len(Seen) = 3
  /\ Len(segment_subtitles[1]["content"]) > min_chars

====
